---- MODULE Spec2Model ----
(***************************************************************************)
(* Model of src/email_verification.py: the MX cache, the cached MX lookup, *)
(* the SMTP mailbox probe, catch-all detection and provider detection.     *)
(*                                                                         *)
(* Strings are sequences of one-character strings, so that lower(),        *)
(* split("@"), rstrip(".") and the "in" substring test are computed.       *)
(* Python dictionaries are records; an Optional[bool] is one of the        *)
(* strings "True", "False", "None"; an Optional[dict] carries a flag some. *)
(* The DNS resolver and the SMTP peer are the environment: every call of   *)
(* the code into dns.resolver or smtplib draws its outcome from the set of *)
(* outcomes that call can have.                                            *)
(***************************************************************************)
EXTENDS Integers, Sequences, FiniteSets, TLC

VARIABLES mx_cache, clock, last, calls

vars == <<mx_cache, clock, last, calls>>

----------------------------------------------------------------------------
(* Bounds of the model *)

\* the last instant the modelled clock reaches
MaxClock == 3601

\* the longest a DNS resolution takes (time between the two time.time() reads
\* of one check_mx_records_cached call)
MaxDnsDelay == 1

----------------------------------------------------------------------------
(* Program constants *)

MX_CACHE_TTL == 3600

\* the values of an Optional[bool] field
True == "True"
False == "False"
None == "None"

----------------------------------------------------------------------------
(* Strings *)

UpperChars ==
  <<"A","B","C","D","E","F","G","H","I","J","K","L","M",
    "N","O","P","Q","R","S","T","U","V","W","X","Y","Z">>

LowerChars ==
  <<"a","b","c","d","e","f","g","h","i","j","k","l","m",
    "n","o","p","q","r","s","t","u","v","w","x","y","z">>

\* the lower-case letter of each upper-case letter
LowerOf ==
  [u \in { UpperChars[i] : i \in 1..Len(UpperChars) } |->
     LowerChars[CHOOSE i \in 1..Len(UpperChars) : UpperChars[i] = u]]

\* str.lower() on one character
LowerChar(c) == IF c \in DOMAIN LowerOf THEN LowerOf[c] ELSE c

\* str.lower()
Lower(s) == [i \in 1..Len(s) |-> LowerChar(s[i])]

\* "sub in s" for strings
Contains(s, sub) ==
  \E i \in 0..(Len(s) - Len(sub)) :
     \A j \in 1..Len(sub) : s[i + j] = sub[j]

\* str.rstrip(ch)
RECURSIVE RStrip(_, _)
RStrip(s, ch) ==
  IF Len(s) > 0 /\ s[Len(s)] = ch
  THEN RStrip(SubSeq(s, 1, Len(s) - 1), ch)
  ELSE s

\* str.split(sep) for a one-character separator: the list of the pieces
RECURSIVE SplitFrom(_, _, _)
SplitFrom(s, sep, cur) ==
  IF s = <<>> THEN <<cur>>
  ELSE IF Head(s) = sep
       THEN <<cur>> \o SplitFrom(Tail(s), sep, <<>>)
       ELSE SplitFrom(Tail(s), sep, Append(cur, Head(s)))

Split(s, sep) == SplitFrom(s, sep, <<>>)

----------------------------------------------------------------------------
(* Exceptions and outcomes of a call *)

Return(v) == [kind |-> "return", value |-> v]

Raise(e) == [kind |-> "raise", exc |-> e]

\* the dnspython exception classes named by the first except clause
DnsNamedErrors == {"NoAnswer", "NXDOMAIN", "NoNameservers"}

\* isinstance(e, Exception): every exception the resolver or smtplib raises
IsException(e) == e.base = "Exception"

Exc(type, msg) == [base |-> "Exception", type |-> type, msg |-> msg]

----------------------------------------------------------------------------
(* Inputs: domains and DNS answers *)

DomLower == <<"e","x">>
DomMixed == <<"E","x">>
DomOther == <<"o","r">>

Domains == {DomLower, DomMixed, DomOther}

HostA == <<"m","x",".">>
HostB == <<"a","l","t">>

\* the answers of a resolver: at least one MX rdata (preference and exchange
\* name), in the order the server sent them
RdataSeqs ==
  { <<[preference |-> 10, exchange |-> HostA]>>,
    <<[preference |-> 20, exchange |-> HostB],
      [preference |-> 10, exchange |-> HostA]>> }

\* what dns.resolver.resolve(domain, "MX") can do
DnsOutcomes ==
  { Return(a) : a \in RdataSeqs } \cup
  { Raise(Exc(t, "dns")) : t \in DnsNamedErrors } \cup
  { Raise(Exc("LifetimeTimeout", "timed out")) }

\* the instants at which the clock is observed
TimePoints == {0, 1} \cup (MX_CACHE_TTL..MaxClock)

\* the instants at which a resolution started at now can complete
DoneTimes(now) == { t \in TimePoints : t >= now /\ t - now <= MaxDnsDelay }

----------------------------------------------------------------------------
(* The MX cache *)

\* hashlib.md5(...).hexdigest(): an injective tag of the hashed string
md5(s) == <<"md5", s>>

\* get_mx_cache_key without .lower(): the key depends on the letters' case
get_mx_cache_key_case_sensitive(domain) == md5(domain)

get_mx_cache_key(domain) == md5(Lower(domain))

\* get_cached_mx without the del: an expired entry misses but stays
get_cached_mx_keep_expired(cache, now, domain) ==
  LET cache_key == get_mx_cache_key(domain) IN
  IF cache_key \in DOMAIN cache
  THEN IF now - cache[cache_key].timestamp < MX_CACHE_TTL
       THEN [some |-> TRUE, value |-> cache[cache_key].data, cache |-> cache]
       ELSE [some |-> FALSE, cache |-> cache]
  ELSE [some |-> FALSE, cache |-> cache]

\* get_cached_mx with the expiry test "<=": an entry aged exactly the TTL hits
get_cached_mx_inclusive(cache, now, domain) ==
  LET cache_key == get_mx_cache_key(domain) IN
  IF cache_key \in DOMAIN cache
  THEN IF now - cache[cache_key].timestamp <= MX_CACHE_TTL
       THEN [some |-> TRUE, value |-> cache[cache_key].data, cache |-> cache]
       ELSE [some |-> FALSE,
             cache |-> [k \in (DOMAIN cache) \ {cache_key} |-> cache[k]]]
  ELSE [some |-> FALSE, cache |-> cache]

\* some: a dictionary is returned (FALSE: None is returned); value: that
\* dictionary; cache: the cache afterwards
get_cached_mx(cache, now, domain) ==
  LET cache_key == get_mx_cache_key(domain) IN
  IF cache_key \in DOMAIN cache
  THEN IF now - cache[cache_key].timestamp < MX_CACHE_TTL
       THEN [some |-> TRUE, value |-> cache[cache_key].data, cache |-> cache]
       ELSE [some |-> FALSE,
             cache |-> [k \in (DOMAIN cache) \ {cache_key} |-> cache[k]]]
  ELSE [some |-> FALSE, cache |-> cache]

\* cache_mx_records on a cache of one entry: storing evicts the others
cache_mx_records_evicting(cache, now, domain, mx_data) ==
  LET cache_key == get_mx_cache_key(domain) IN
  [k \in {cache_key} |-> [data |-> mx_data, timestamp |-> now]]

cache_mx_records(cache, now, domain, mx_data) ==
  LET cache_key == get_mx_cache_key(domain) IN
  [k \in (DOMAIN cache) \cup {cache_key} |->
     IF k = cache_key THEN [data |-> mx_data, timestamp |-> now]
     ELSE cache[k]]

----------------------------------------------------------------------------
(* check_mx_records_cached *)

\* list.sort(key=priority): stable insertion sort
RECURSIVE InsertByPriority(_, _)
InsertByPriority(sorted, r) ==
  IF sorted = <<>> THEN <<r>>
  ELSE IF Head(sorted).priority <= r.priority
       THEN <<Head(sorted)>> \o InsertByPriority(Tail(sorted), r)
       ELSE <<r>> \o sorted

RECURSIVE SortByPriority(_)
SortByPriority(recs) ==
  IF recs = <<>> THEN <<>>
  ELSE InsertByPriority(SortByPriority(SubSeq(recs, 1, Len(recs) - 1)),
                        recs[Len(recs)])

\* the loop over the answer
MxRecordsOf(answers) ==
  [i \in 1..Len(answers) |->
     [priority |-> answers[i].preference,
      host |-> RStrip(answers[i].exchange, ".")]]

\* the success branch without mx_records.sort(): the records stay in the
\* order of the answer
MxSuccess_unsorted(domain, answers) ==
  LET mx_records == MxRecordsOf(answers) IN
  [domain |-> domain, has_mx |-> TRUE, accepts_email |-> TRUE,
   mx_records |-> mx_records, record_count |-> Len(mx_records),
   cached |-> FALSE]

MxSuccess(domain, answers) ==
  LET mx_records == SortByPriority(MxRecordsOf(answers)) IN
  [domain |-> domain, has_mx |-> TRUE, accepts_email |-> TRUE,
   mx_records |-> mx_records, record_count |-> Len(mx_records),
   cached |-> FALSE]

\* the failure result with accepts_email left True
MxFailure_accepting(domain, error) ==
  [domain |-> domain, has_mx |-> FALSE, accepts_email |-> TRUE,
   mx_records |-> <<>>, record_count |-> 0, error |-> error,
   cached |-> FALSE]

MxFailure(domain, error) ==
  [domain |-> domain, has_mx |-> FALSE, accepts_email |-> FALSE,
   mx_records |-> <<>>, record_count |-> 0, error |-> error,
   cached |-> FALSE]

\* MxExcept with str(e) in the first clause too: the error is the message
MxExcept_by_message(domain, e) ==
  IF IsException(e) THEN Return(MxFailure(domain, e.msg))
  ELSE Raise(e)

\* MxExcept without the second except clause
MxExcept_named_only(domain, e) ==
  IF e.type \in DnsNamedErrors THEN Return(MxFailure(domain, e.type))
  ELSE Raise(e)

\* the except clauses of check_mx_records_cached
MxExcept(domain, e) ==
  IF e.type \in DnsNamedErrors THEN Return(MxFailure(domain, e.type))
  ELSE IF IsException(e) THEN Return(MxFailure(domain, e.msg))
  ELSE Raise(e)

\* ans: what the resolver does if it is asked; done: the instant it completes.
\* ret: the outcome; cache, clock: the state afterwards; dns: the number of
\* DNS queries issued; found: the timestamp of the entry the lookup found.
check_mx_records_cached(cache, now, domain, ans, done) ==
  LET got == get_cached_mx(cache, now, domain)
      key == get_mx_cache_key(domain)
      found == IF key \in DOMAIN cache THEN cache[key].timestamp ELSE -1
  IN
  IF got.some
  THEN [ret |-> Return([got.value EXCEPT !.cached = TRUE]),
        cache |-> got.cache, clock |-> now, dns |-> 0, found |-> found]
  ELSE IF ans.kind = "return"
       THEN LET result == MxSuccess(domain, ans.value) IN
            [ret |-> Return(result),
             cache |-> cache_mx_records(got.cache, done, domain, result),
             clock |-> done, dns |-> 1, found |-> found]
       ELSE [ret |-> MxExcept(domain, ans.exc),
             cache |-> got.cache, clock |-> done, dns |-> 1, found |-> found]

----------------------------------------------------------------------------
(* The SMTP peer, as smtplib shows it to the code *)

\* an exception raised by an smtplib call.  smtp: it is an SMTPException;
\* sock: what the call left of the connection ("none": no socket was created,
\* "closed": smtplib closed the socket before raising, "open": still open)
SmtpExc(type, smtp, sock) ==
  [base |-> "Exception", type |-> type, msg |-> type, smtp |-> smtp,
   sock |-> sock]

\* the server hung up or timed out: smtplib closes the socket and raises
ServerDisconnected == SmtpExc("SMTPServerDisconnected", TRUE, "closed")

\* the TCP connection could not be made
ConnectionRefused == SmtpExc("ConnectionRefusedError", FALSE, "none")

\* the command could not be encoded; nothing was sent
EncodeError == SmtpExc("UnicodeEncodeError", FALSE, "open")

Reply(code, message) == [kind |-> "reply", code |-> code, message |-> message]

\* reply texts as bytes: utf8 tells whether bytes.decode() succeeds
Messages == { [text |-> "text", utf8 |-> TRUE],
              [text |-> "\\xe9", utf8 |-> FALSE] }

OkMessage == [text |-> "text", utf8 |-> TRUE]

ConnectOutcomes ==
  { Reply(220, OkMessage), Raise(ConnectionRefused), Raise(ServerDisconnected) }

HeloOutcomes == { Reply(250, OkMessage), Raise(ServerDisconnected) }

MailCodes == {250, 251, 550}

MailOutcomes ==
  { Reply(c, m) : c \in MailCodes, m \in Messages } \cup
  { Raise(ServerDisconnected) }

RcptCodes == {250, 251, 451, 550}

RcptOutcomes ==
  { Reply(c, m) : c \in RcptCodes, m \in Messages } \cup
  { Raise(ServerDisconnected), Raise(EncodeError) }

QuitOutcomes == { Reply(221, OkMessage), Raise(ServerDisconnected) }

\* an exception raised by the interpreter, not by smtplib
PyExc(type) ==
  [base |-> "Exception", type |-> type, msg |-> type, smtp |-> FALSE,
   sock |-> "open"]

\* one call of the code on the smtplib.SMTP object and what it did
Ev(cmd, resp) == [cmd |-> cmd, resp |-> resp]

\* server.connect(host) and what it did
EvConnect(host, resp) == [cmd |-> "connect", host |-> host, resp |-> resp]

\* bytes.decode()
Decode(message) ==
  IF message.utf8 THEN Return(message.text)
  ELSE Raise(PyExc("UnicodeDecodeError"))

\* the sessions a call opened: connect() calls that created a socket
SessionsOpened(log) ==
  Cardinality({ i \in 1..Len(log) :
     /\ log[i].cmd = "connect"
     /\ ~(log[i].resp.kind = "raise" /\ log[i].resp.exc.sock = "none") })

\* the times a connection was closed: quit() closes it on return and on
\* failure; any other call closes it only when smtplib does before raising
SessionsClosed(log) ==
  Cardinality({ i \in 1..Len(log) :
     \/ log[i].cmd = "quit"
     \/ /\ log[i].cmd # "quit"
        /\ log[i].resp.kind = "raise"
        /\ log[i].resp.exc.sock = "closed" })

----------------------------------------------------------------------------
(* verify_email_smtp *)

\* the tests of the RCPT TO reply code
IsAccepted(code) == code = 250

IsUnknownMailbox(code) == code = 550

\* the classification of the RCPT TO reply
VerifyClassify(email, mx_host, code, message) ==
  IF IsAccepted(code)
  THEN Return([email |-> email, exists |-> True, deliverable |-> TRUE,
               catch_all |-> FALSE, mx_host |-> mx_host])
  ELSE LET d == Decode(message) IN
       IF d.kind = "raise" THEN d
       ELSE IF IsUnknownMailbox(code)
       THEN Return([email |-> email, exists |-> False, deliverable |-> FALSE,
                    catch_all |-> FALSE, mx_host |-> mx_host,
                    error |-> [fmt |-> "Mailbox does not exist: {message}",
                               message |-> d.value]])
       ELSE Return([email |-> email, exists |-> None, deliverable |-> FALSE,
                    catch_all |-> FALSE, mx_host |-> mx_host,
                    error |-> [fmt |-> "Unexpected SMTP code: {code} {message}",
                               code |-> code, message |-> d.value]])

\* server.rcpt(email); server.quit(); classification
VerifyRcpt(email, mx_host, log) ==
  UNION { IF r.kind = "raise"
          THEN { [out |-> r, log |-> Append(log, Ev("rcpt", r))] }
          ELSE { [out |-> IF q.kind = "raise" THEN q
                          ELSE VerifyClassify(email, mx_host, r.code, r.message),
                  log |-> log \o <<Ev("rcpt", r), Ev("quit", q)>>]
                 : q \in QuitOutcomes }
        : r \in RcptOutcomes }

\* the MAIL FROM rejection branch: server.quit(), then the result
VerifyMailRejected(email, mx_host, code, message, log) ==
  { [out |-> IF q.kind = "raise" THEN q
             ELSE LET d == Decode(message) IN
                  IF d.kind = "raise" THEN d
                  ELSE Return([email |-> email, exists |-> False,
                               deliverable |-> FALSE, catch_all |-> FALSE,
                               mx_host |-> mx_host,
                               error |-> [fmt |-> "MAIL FROM rejected: {code} {message}",
                                          code |-> code, message |-> d.value]]),
      log |-> Append(log, Ev("quit", q))]
    : q \in QuitOutcomes }

\* the test of the MAIL FROM reply
MailRejected(code) == code # 250

\* server.mail('verify@example.com') and what follows
VerifyMail(email, mx_host, log) ==
  UNION { IF m.kind = "raise"
          THEN { [out |-> m, log |-> Append(log, Ev("mail", m))] }
          ELSE IF MailRejected(m.code)
          THEN VerifyMailRejected(email, mx_host, m.code, m.message,
                                  Append(log, Ev("mail", m)))
          ELSE VerifyRcpt(email, mx_host, Append(log, Ev("mail", m)))
        : m \in MailOutcomes }

\* server.helo(...) and what follows
VerifyHelo(email, mx_host, log) ==
  UNION { IF h.kind = "raise"
          THEN { [out |-> h, log |-> Append(log, Ev("helo", h))] }
          ELSE VerifyMail(email, mx_host, Append(log, Ev("helo", h)))
        : h \in HeloOutcomes }

\* the body of the inner try: server.connect(mx_host) and what follows
VerifyTry(email, mx_host) ==
  UNION { IF c.kind = "raise"
          THEN { [out |-> c, log |-> <<EvConnect(mx_host, c)>>] }
          ELSE VerifyHelo(email, mx_host, <<EvConnect(mx_host, c)>>)
        : c \in ConnectOutcomes }

\* the except clauses of the inner try
VerifyExcept(email, mx_host, o) ==
  IF o.out.kind = "return" THEN o
  ELSE IF o.out.exc.smtp
  THEN [o EXCEPT !.out =
          Return([email |-> email, exists |-> None, deliverable |-> FALSE,
                  catch_all |-> FALSE, mx_host |-> mx_host,
                  error |-> [fmt |-> "SMTP error: {e}", e |-> o.out.exc.msg]])]
  ELSE IF IsException(o.out.exc)
  THEN [o EXCEPT !.out =
          Return([email |-> email, exists |-> None, deliverable |-> FALSE,
                  catch_all |-> FALSE, mx_host |-> mx_host,
                  error |-> [fmt |-> "Connection error: {e}",
                             e |-> o.out.exc.msg]])]
  ELSE o

\* the except clause of the outer try
VerifyOuterExcept(email, out) ==
  IF out.kind = "return" THEN out
  ELSE IF IsException(out.exc)
  THEN Return([email |-> email, exists |-> None, deliverable |-> FALSE,
               catch_all |-> FALSE,
               error |-> [fmt |-> "Verification failed: {e}",
                          e |-> out.exc.msg]])
  ELSE out

\* HasAt with the test left out
HasAt_unchecked(email) == TRUE

\* "@" in email
HasAt(email) == \E i \in 1..Len(email) : email[i] = "@"

\* HasNoMx with the test left out
HasNoMx_unchecked(mx_info) == FALSE

\* not mx_info["has_mx"]
HasNoMx(mx_info) == ~mx_info.has_mx

\* mx_info["mx_records"][0]["host"]
\* FirstHost reading mx_records[-1]: the record of the highest priority number
FirstHost_last(mx_info) ==
  IF Len(mx_info.mx_records) >= 1
  THEN Return(mx_info.mx_records[Len(mx_info.mx_records)].host)
  ELSE Raise(PyExc("IndexError"))

FirstHost(mx_info) ==
  IF Len(mx_info.mx_records) >= 1
  THEN Return(mx_info.mx_records[1].host)
  ELSE Raise(PyExc("IndexError"))

\* the set of the ways one call can go.  ret: the outcome; cache, clock: the
\* state afterwards; dns: the DNS queries issued; log: the calls on the SMTP
\* object; found: the timestamp of the cache entry the lookup found; mx: the
\* outcome of the MX lookup, if one was made
verify_email_smtp(cache, now, email, ans, done) ==
  LET Local(out) == [ret |-> VerifyOuterExcept(email, out), cache |-> cache,
                     clock |-> now, dns |-> 0, found |-> -1, mx |-> <<>>,
                     log |-> <<>>]
      parts == Split(email, "@")
  IN
  IF ~HasAt(email)
  THEN { Local(Return([email |-> email, exists |-> False,
                       deliverable |-> FALSE, catch_all |-> FALSE,
                       error |-> [fmt |-> "Invalid email format"]])) }
  ELSE IF Len(parts) < 2 THEN { Local(Raise(PyExc("IndexError"))) }
  ELSE
    LET domain == parts[2]
        mx == check_mx_records_cached(cache, now, domain, ans, done)
        With(out, log) == [ret |-> VerifyOuterExcept(email, out),
                           cache |-> mx.cache, clock |-> mx.clock,
                           dns |-> mx.dns, found |-> mx.found,
                           mx |-> <<mx.ret>>, log |-> log]
    IN
    IF mx.ret.kind = "raise" THEN { With(mx.ret, <<>>) }
    ELSE IF HasNoMx(mx.ret.value)
    THEN { With(Return([email |-> email, exists |-> False,
                        deliverable |-> FALSE, catch_all |-> FALSE,
                        error |-> [fmt |-> "No MX records found"]]), <<>>) }
    ELSE LET h == FirstHost(mx.ret.value) IN
         IF h.kind = "raise" THEN { With(h, <<>>) }
         ELSE { With(VerifyExcept(email, h.value, o).out, o.log)
                : o \in VerifyTry(email, h.value) }

----------------------------------------------------------------------------
(* detect_catch_all *)

\* random.choices(...): the local parts the generator can produce
RandomLocals == { <<"q","7">>, <<"z","3">> }

\* the verdict on the RCPT TO reply
CatchAllClassify(domain, test_email, mx_host, code) ==
  IF code = 250
  THEN Return([domain |-> domain, is_catch_all |-> True, confidence |-> 90,
               tested_email |-> test_email, mx_host |-> mx_host])
  ELSE Return([domain |-> domain, is_catch_all |-> False, confidence |-> 85,
               tested_email |-> test_email, mx_host |-> mx_host])

\* server.rcpt(test_email); server.quit(); verdict
CatchAllRcpt(domain, test_email, mx_host, log) ==
  UNION { IF r.kind = "raise"
          THEN { [out |-> r, log |-> Append(log, Ev("rcpt", r))] }
          ELSE { [out |-> IF q.kind = "raise" THEN q
                          ELSE CatchAllClassify(domain, test_email, mx_host,
                                                r.code),
                  log |-> log \o <<Ev("rcpt", r), Ev("quit", q)>>]
                 : q \in QuitOutcomes }
        : r \in RcptOutcomes }

\* server.mail('verify@example.com'), whose reply is not looked at
CatchAllMail(domain, test_email, mx_host, log) ==
  UNION { IF m.kind = "raise"
          THEN { [out |-> m, log |-> Append(log, Ev("mail", m))] }
          ELSE CatchAllRcpt(domain, test_email, mx_host,
                            Append(log, Ev("mail", m)))
        : m \in MailOutcomes }

\* CatchAllHelo without server.mail(...): RCPT TO follows HELO
CatchAllHelo_skip_mail(domain, test_email, mx_host, log) ==
  UNION { IF h.kind = "raise"
          THEN { [out |-> h, log |-> Append(log, Ev("helo", h))] }
          ELSE CatchAllRcpt(domain, test_email, mx_host,
                            Append(log, Ev("helo", h)))
        : h \in HeloOutcomes }

\* server.helo(...) and what follows
CatchAllHelo(domain, test_email, mx_host, log) ==
  UNION { IF h.kind = "raise"
          THEN { [out |-> h, log |-> Append(log, Ev("helo", h))] }
          ELSE CatchAllMail(domain, test_email, mx_host,
                            Append(log, Ev("helo", h)))
        : h \in HeloOutcomes }

\* the body of the try: server.connect(mx_host) and what follows
CatchAllTry(domain, test_email, mx_info) ==
  LET h == FirstHost(mx_info) IN
  IF h.kind = "raise" THEN { [out |-> h, log |-> <<>>] }
  ELSE UNION { IF c.kind = "raise"
               THEN { [out |-> c, log |-> <<EvConnect(h.value, c)>>] }
               ELSE CatchAllHelo(domain, test_email, h.value,
                                 <<EvConnect(h.value, c)>>)
             : c \in ConnectOutcomes }

\* detect_catch_all without its except clause: the exception propagates
CatchAllExcept_reraise(domain, out) == out

\* the except clause
CatchAllExcept(domain, out) ==
  IF out.kind = "return" THEN out
  ELSE IF IsException(out.exc)
  THEN Return([domain |-> domain, is_catch_all |-> None, confidence |-> 0,
               error |-> out.exc.msg])
  ELSE out

\* the set of the ways one call can go (fields as for verify_email_smtp)
detect_catch_all(cache, now, domain, random_local, ans, done) ==
  LET test_email == random_local \o <<"@">> \o domain
      mx == check_mx_records_cached(cache, now, domain, ans, done)
      With(out, log) == [ret |-> out, cache |-> mx.cache, clock |-> mx.clock,
                         dns |-> mx.dns, found |-> mx.found,
                         mx |-> <<mx.ret>>, log |-> log]
  IN
  IF mx.ret.kind = "raise" THEN { With(mx.ret, <<>>) }
  ELSE IF HasNoMx(mx.ret.value)
  THEN { With(Return([domain |-> domain, is_catch_all |-> False,
                      confidence |-> 100,
                      error |-> "No MX records"]), <<>>) }
  ELSE { With(CatchAllExcept(domain, o.out), o.log)
         : o \in CatchAllTry(domain, test_email, mx.ret.value) }

----------------------------------------------------------------------------
(* get_domain_info *)

\* the provider table, in the order of the if/elif chain
ProviderTable ==
  << [subs |-> { <<"g","o","o","g","l","e">>, <<"g","m","a","i","l">> },
      provider |-> "Google Workspace"],
     [subs |-> { <<"o","u","t","l","o","o","k">>,
                 <<"m","i","c","r","o","s","o","f","t">>,
                 <<"o","f","f","i","c","e","3","6","5">> },
      provider |-> "Microsoft 365"],
     [subs |-> { <<"p","r","o","t","o","n","m","a","i","l">> },
      provider |-> "ProtonMail"],
     [subs |-> { <<"z","o","h","o">> }, provider |-> "Zoho Mail"],
     [subs |-> { <<"m","a","i","l","g","u","n">> }, provider |-> "Mailgun"],
     [subs |-> { <<"s","e","n","d","g","r","i","d">> },
      provider |-> "SendGrid"] >>

\* the chain read as independent ifs: the last matching row wins
ProviderOf_last_match(mx_host) ==
  LET hits == { i \in 1..Len(ProviderTable) :
                  \E sub \in ProviderTable[i].subs : Contains(mx_host, sub) }
  IN IF hits = {} THEN "Unknown"
     ELSE ProviderTable[CHOOSE i \in hits : \A j \in hits : i >= j].provider

\* the if/elif chain: the first row one of whose substrings is in mx_host
ProviderOf(mx_host) ==
  LET hits == { i \in 1..Len(ProviderTable) :
                  \E sub \in ProviderTable[i].subs : Contains(mx_host, sub) }
  IN IF hits = {} THEN "Unknown"
     ELSE ProviderTable[CHOOSE i \in hits : \A j \in hits : i <= j].provider

get_domain_info(cache, now, domain, ans, done) ==
  LET mx == check_mx_records_cached(cache, now, domain, ans, done) IN
  IF mx.ret.kind = "raise" THEN mx
  ELSE LET mx_info == mx.ret.value
           provider ==
             IF mx_info.has_mx /\ Len(mx_info.mx_records) > 0
             THEN ProviderOf(Lower(mx_info.mx_records[1].host))
             ELSE "Unknown"
       IN [mx EXCEPT !.ret =
             Return([domain |-> domain, mx_info |-> mx_info,
                     email_provider |-> provider,
                     provider_detected |-> provider # "Unknown"])]

----------------------------------------------------------------------------
(* State machine *)

NoCall == [op |-> "none"]

\* the threads that may be inside check_mx_records_cached at the same time
Threads == {"t1", "t2"}

\* a thread that is not inside a call
NotCalling == [pc |-> "idle"]

Init ==
  /\ mx_cache = <<>>
  /\ clock = 0
  /\ last = NoCall
  /\ calls = [t \in Threads |-> NotCalling]

\* time passes between calls
Tick ==
  /\ \E t \in TimePoints : t > clock /\ clock' = t
  /\ UNCHANGED <<mx_cache, last, calls>>

CheckMx ==
  \E domain \in Domains, ans \in DnsOutcomes, done \in DoneTimes(clock) :
    \E r \in { check_mx_records_cached(mx_cache, clock, domain, ans, done) } :
    /\ mx_cache' = r.cache
    /\ clock' = r.clock
    /\ last' = [op |-> "check_mx_records_cached", arg |-> domain,
                at |-> clock, found |-> r.found, dns |-> r.dns,
                ret |-> r.ret, mx |-> <<>>, log |-> <<>>]
    /\ UNCHANGED calls

GetDomainInfo ==
  \E domain \in Domains, ans \in DnsOutcomes, done \in DoneTimes(clock) :
    \E r \in { get_domain_info(mx_cache, clock, domain, ans, done) } :
    /\ mx_cache' = r.cache
    /\ clock' = r.clock
    /\ last' = [op |-> "get_domain_info", arg |-> domain,
                at |-> clock, found |-> r.found, dns |-> r.dns,
                ret |-> r.ret, mx |-> <<>>, log |-> <<>>]
    /\ UNCHANGED calls

\* exchange names of hosted mail providers
HostGmailOutlook == <<"G","M","A","I","L",".","O","u","t","l","o","o","k",".">>
HostGoogle == <<"a","s","p","m","x",".","g","o","o","g","l","e",".">>
HostZoho == <<"m","x",".","z","o","h","o",".">>
HostOffice365 == <<"x",".","O","f","f","i","c","e","3","6","5",".">>
HostProtonmail == <<"p","r","o","t","o","n","m","a","i","l",".">>
HostMailgun == <<"m","a","i","l","g","u","n",".">>
HostSendgrid == <<"s","e","n","d","g","r","i","d",".">>

\* answers whose exchange names carry the substrings of the provider table
ProviderRdataSeqs ==
  { <<[preference |-> 10, exchange |-> HostGmailOutlook]>>,
    <<[preference |-> 20, exchange |-> HostGoogle],
      [preference |-> 10, exchange |-> HostZoho]>>,
    <<[preference |-> 10, exchange |-> HostOffice365]>>,
    <<[preference |-> 10, exchange |-> HostProtonmail]>>,
    <<[preference |-> 10, exchange |-> HostMailgun]>>,
    <<[preference |-> 10, exchange |-> HostSendgrid]>>,
    <<[preference |-> 10, exchange |-> HostA]>> }

ProviderDnsOutcomes ==
  { Return(a) : a \in ProviderRdataSeqs } \cup
  { Raise(Exc("NXDOMAIN", "dns")) }

\* get_domain_info on a domain whose mail a provider may host
GetProviderInfo ==
  \E domain \in Domains, ans \in ProviderDnsOutcomes,
     done \in DoneTimes(clock) :
    \E r \in { get_domain_info(mx_cache, clock, domain, ans, done) } :
    /\ mx_cache' = r.cache
    /\ clock' = r.clock
    /\ last' = [op |-> "get_domain_info", arg |-> domain,
                at |-> clock, found |-> r.found, dns |-> r.dns,
                ret |-> r.ret, mx |-> <<>>, log |-> <<>>]
    /\ UNCHANGED calls

\* the addresses asked about
Emails == { <<"u","@","e","x">>, <<"u","@","E","x">>, <<"u","e","x">>,
            <<"u","@","o","r","@","e","x">> }

VerifyEmail ==
  \E email \in Emails, ans \in DnsOutcomes, done \in DoneTimes(clock) :
    \E r \in verify_email_smtp(mx_cache, clock, email, ans, done) :
      /\ mx_cache' = r.cache
      /\ clock' = r.clock
      /\ last' = [op |-> "verify_email_smtp", arg |-> email,
                  at |-> clock, found |-> r.found, dns |-> r.dns,
                  ret |-> r.ret, mx |-> r.mx, log |-> r.log]
      /\ UNCHANGED calls

DetectCatchAll ==
  \E domain \in Domains, random_local \in RandomLocals,
     ans \in DnsOutcomes, done \in DoneTimes(clock) :
    \E r \in detect_catch_all(mx_cache, clock, domain, random_local,
                              ans, done) :
      /\ mx_cache' = r.cache
      /\ clock' = r.clock
      /\ last' = [op |-> "detect_catch_all", arg |-> domain,
                  at |-> clock, found |-> r.found, dns |-> r.dns,
                  ret |-> r.ret, mx |-> r.mx, log |-> r.log]
      /\ UNCHANGED calls

\* the route handler returns the result of its call to the client
Respond ==
  /\ last # NoCall
  /\ last' = NoCall
  /\ UNCHANGED <<mx_cache, clock, calls>>

\* no request is being handled
Idle == last = NoCall

\* the service: the event loop runs one route handler at a time, and each
\* handler makes its call and responds; time passes between the requests
Next ==
  \/ Idle /\ Tick
  \/ Idle /\ CheckMx
  \/ Idle /\ GetDomainInfo
  \/ Idle /\ VerifyEmail
  \/ Idle /\ DetectCatchAll
  \/ Respond

Spec == Init /\ [][Next]_vars

\* MX lookups made back to back by one caller, which keeps the last result
NextMx == Tick \/ CheckMx \/ GetDomainInfo

SpecMx == Init /\ [][NextMx]_vars

\* domain information requests only
NextInfo == Tick \/ GetProviderInfo

SpecInfo == Init /\ [][NextInfo]_vars

----------------------------------------------------------------------------
(* check_mx_records_cached called from several threads: one action per
   statement that reads or writes _mx_cache; calls[t].pc is the statement
   thread t executes next *)

At(t, pc) == calls[t].pc = pc

Goto(t, c) ==
  /\ calls' = [calls EXCEPT ![t] = c]
  /\ UNCHANGED <<clock, last>>

\* check_mx_records_cached(domain) is entered
BeginCheckMx ==
  \E t \in Threads, domain \in Domains :
    /\ At(t, "idle")
    /\ Goto(t, [pc |-> "in", domain |-> domain])
    /\ UNCHANGED mx_cache

\* get_cached_mx: if cache_key in _mx_cache
CacheKeyIn ==
  \E t \in Threads :
    /\ At(t, "in")
    /\ Goto(t, [calls[t] EXCEPT !.pc =
                  IF get_mx_cache_key(calls[t].domain) \in DOMAIN mx_cache
                  THEN "read" ELSE "resolve"])
    /\ UNCHANGED mx_cache

\* get_cached_mx: cached_data, timestamp = _mx_cache[cache_key]
CacheRead ==
  \E t \in Threads :
    /\ At(t, "read")
    /\ LET cache_key == get_mx_cache_key(calls[t].domain) IN
       IF cache_key \in DOMAIN mx_cache
       THEN Goto(t, [pc |-> "age", domain |-> calls[t].domain,
                     cached_data |-> mx_cache[cache_key].data,
                     timestamp |-> mx_cache[cache_key].timestamp])
       ELSE Goto(t, [pc |-> "failed", domain |-> calls[t].domain,
                     ret |-> Raise(PyExc("KeyError"))])
    /\ UNCHANGED mx_cache

\* get_cached_mx: if time.time() - timestamp < MX_CACHE_TTL: return
\* cached_data, which check_mx_records_cached returns with cached = True
CacheAgeTest ==
  \E t \in Threads :
    /\ At(t, "age")
    /\ IF clock - calls[t].timestamp < MX_CACHE_TTL
       THEN Goto(t, [pc |-> "done", domain |-> calls[t].domain,
                     ret |-> Return([calls[t].cached_data
                                       EXCEPT !.cached = TRUE])])
       ELSE Goto(t, [pc |-> "del", domain |-> calls[t].domain])
    /\ UNCHANGED mx_cache

\* get_cached_mx: del _mx_cache[cache_key]
CacheDelete ==
  \E t \in Threads :
    /\ At(t, "del")
    /\ LET cache_key == get_mx_cache_key(calls[t].domain) IN
       IF cache_key \in DOMAIN mx_cache
       THEN /\ mx_cache' = [k \in (DOMAIN mx_cache) \ {cache_key} |->
                              mx_cache[k]]
            /\ Goto(t, [pc |-> "resolve", domain |-> calls[t].domain])
       ELSE /\ Goto(t, [pc |-> "failed", domain |-> calls[t].domain,
                        ret |-> Raise(PyExc("KeyError"))])
            /\ UNCHANGED mx_cache

\* the try block up to the result dictionary, and the except clauses
Resolve ==
  \E t \in Threads, ans \in DnsOutcomes :
    /\ At(t, "resolve")
    /\ IF ans.kind = "return"
       THEN Goto(t, [pc |-> "store", domain |-> calls[t].domain,
                     result |-> MxSuccess(calls[t].domain, ans.value)])
       ELSE Goto(t, [pc |-> "done", domain |-> calls[t].domain,
                     ret |-> MxExcept(calls[t].domain, ans.exc)])
    /\ UNCHANGED mx_cache

\* cache_mx_records(domain, result); return result
CacheStore ==
  \E t \in Threads :
    /\ At(t, "store")
    /\ mx_cache' = cache_mx_records(mx_cache, clock, calls[t].domain,
                                    calls[t].result)
    /\ Goto(t, [pc |-> "done", domain |-> calls[t].domain,
                ret |-> Return(calls[t].result)])

\* the call is over: it returned, or the KeyError left it
EndCheckMx ==
  \E t \in Threads :
    /\ At(t, "done") \/ At(t, "failed")
    /\ Goto(t, NotCalling)
    /\ UNCHANGED mx_cache

NextThreads ==
  \/ Tick
  \/ BeginCheckMx
  \/ CacheKeyIn
  \/ CacheRead
  \/ CacheAgeTest
  \/ CacheDelete
  \/ Resolve
  \/ CacheStore
  \/ EndCheckMx

SpecThreads == Init /\ [][NextThreads]_vars

----------------------------------------------------------------------------
(* Properties *)

CheckOp == "check_mx_records_cached"
VerifyOp == "verify_email_smtp"
DetectOp == "detect_catch_all"

\* the error field of a result dictionary, if it has one
ErrorOf(r) == IF "error" \in DOMAIN r THEN r.error ELSE [fmt |-> ""]

\* the replies the peer gave to a command during the last call
RepliesTo(cmd) ==
  { last.log[i].resp : i \in { j \in 1..Len(last.log) :
       last.log[j].cmd = cmd /\ last.log[j].resp.kind = "reply" } }

\* the last call issued the command
Issued(cmd) == \E i \in 1..Len(last.log) : last.log[i].cmd = cmd

\* C1: when check_mx_records_cached(D) is called twice, the first call being
\* a resolution of whatever outcome, and less than MX_CACHE_TTL seconds lie
\* between the two calls, the second call returns cached = True and issues no
\* DNS query.
C1_SecondCallWithinTtlIsCached ==
  [][ ( /\ last.op = CheckOp
        /\ last'.op = CheckOp
        /\ last' # last
        /\ last'.arg = last.arg
        /\ last.dns = 1
        /\ last'.at - last.at < MX_CACHE_TTL )
      => ( /\ last'.ret.kind = "return"
           /\ last'.ret.value.cached
           /\ last'.dns = 0 ) ]_vars

\* C2: a check_mx_records_cached(D) call that finds the entry of D aged
\* MX_CACHE_TTL seconds or more (now - inserted_at = MX_CACHE_TTL included)
\* performs a fresh DNS resolution and returns cached = False.
C2_ExpiredEntryIsResolvedAfresh ==
  ( /\ last.op = CheckOp
    /\ last.found # -1
    /\ last.at - last.found >= MX_CACHE_TTL )
  => ( /\ last.dns = 1
       /\ last.ret.kind = "return"
       /\ ~last.ret.value.cached )

\* a lookup found an entry aged exactly the TTL and resolved afresh
C2_Witness ==
  /\ last.op = CheckOp
  /\ last.found # -1
  /\ last.at - last.found = MX_CACHE_TTL
  /\ last.dns = 1
  /\ last.ret.kind = "return"
  /\ ~last.ret.value.cached

\* C3: every SMTP session opened by verify_email_smtp or detect_catch_all is
\* closed exactly once before the call returns, on every exit path.
C3_EverySessionClosedOnce ==
  last.op \in {VerifyOp, DetectOp}
  => SessionsClosed(last.log) = SessionsOpened(last.log)

\* C4: no exception escapes check_mx_records_cached, verify_email_smtp,
\* detect_catch_all or get_domain_info, whatever the resolver and the peer do:
\* every call returns a result dictionary.
C4_NoExceptionEscapes ==
  last # NoCall => last.ret.kind = "return"

\* a probe has returned whose RCPT TO call raised an SMTPException
C4_Witness ==
     /\ last.op = VerifyOp
     /\ \E i \in 1..Len(last.log) : last.log[i].resp.kind = "raise"
     /\ last.ret.kind = "return"
     /\ last.mx # <<>>
     /\ last.mx[1].kind = "return"
     /\ last.mx[1].value.has_mx
     /\ last.dns = 1
     /\ ErrorOf(last.ret.value).fmt = "SMTP error: {e}"
     /\ Len(last.log) = 4

\* C5: whenever the peer answers RCPT TO with 250, verify_email_smtp returns
\* exists = True and deliverable = True.
C5_Rcpt250MeansExists ==
  ( /\ last.op = VerifyOp
    /\ \E r \in RepliesTo("rcpt") : r.code = 250 )
  => ( /\ last.ret.kind = "return"
       /\ last.ret.value.exists = True
       /\ last.ret.value.deliverable )

\* C6: whenever the peer answers RCPT TO with 550, verify_email_smtp returns
\* exists = False and deliverable = False.
C6_Rcpt550MeansAbsent ==
  ( /\ last.op = VerifyOp
    /\ \E r \in RepliesTo("rcpt") : r.code = 550 )
  => ( /\ last.ret.kind = "return"
       /\ last.ret.value.exists = False
       /\ ~last.ret.value.deliverable )

\* C7: whenever the peer answers RCPT TO with a code other than 250 and 550,
\* verify_email_smtp returns exists = None and deliverable = False, and the
\* code and the server text are in the error field.
C7_OtherCodeMeansUnknown ==
  last.op = VerifyOp =>
    \A r \in RepliesTo("rcpt") :
      r.code \notin {250, 550}
      => ( /\ last.ret.kind = "return"
           /\ last.ret.value.exists = None
           /\ ~last.ret.value.deliverable
           /\ ErrorOf(last.ret.value).fmt
                = "Unexpected SMTP code: {code} {message}"
           /\ ErrorOf(last.ret.value).code = r.code
           /\ ErrorOf(last.ret.value).message = r.message.text )

\* C8: verify_email_smtp on an address without "@" returns the input error
\* with deliverable = False and makes no network call: no MX lookup, no DNS
\* query, no call on an SMTP object.
C8_NoAtIsLocalError ==
  ( /\ last.op = VerifyOp
    /\ ~(\E i \in 1..Len(last.arg) : last.arg[i] = "@") )
  => ( /\ last.ret.kind = "return"
       /\ ErrorOf(last.ret.value).fmt = "Invalid email format"
       /\ ~last.ret.value.deliverable
       /\ last.mx = <<>>
       /\ last.dns = 0
       /\ last.log = <<>> )

\* an address without "@" was probed
C8_Witness ==
  /\ last.op = VerifyOp
  /\ last.arg = <<"u","e","x">>
  /\ last.ret.kind = "return"
  /\ last.log = <<>>

\* C9: verify_email_smtp for an address whose domain has no MX records
\* returns error = "No MX records found" with deliverable = False and opens
\* no SMTP connection.
C9_NoMxMeansNoSmtp ==
  ( /\ last.op = VerifyOp
    /\ last.mx # <<>>
    /\ last.mx[1].kind = "return"
    /\ ~last.mx[1].value.has_mx )
  => ( /\ last.ret.kind = "return"
       /\ ErrorOf(last.ret.value).fmt = "No MX records found"
       /\ ~last.ret.value.deliverable
       /\ last.log = <<>> )

\* an address was probed whose domain the resolver reported as nonexistent
C9_Witness ==
  /\ last.op = VerifyOp
  /\ last.mx # <<>>
  /\ last.mx[1].kind = "return"
  /\ ~last.mx[1].value.has_mx
  /\ last.mx[1].value.error = "NXDOMAIN"
  /\ last.dns = 1
  /\ last.ret.kind = "return"

\* C10: in verify_email_smtp the MAIL FROM reply is a rejection exactly when
\* its code is not 2xx: then RCPT TO is never issued and the result has
\* deliverable = False with the server's code and text in error; on a 2xx code
\* the dialogue proceeds to RCPT TO.
C10_MailFromRejectedIffNot2xx ==
  last.op = VerifyOp =>
    \A m \in RepliesTo("mail") :
      IF m.code \in 200..299
      THEN Issued("rcpt")
      ELSE /\ ~Issued("rcpt")
           /\ last.ret.kind = "return"
           /\ ~last.ret.value.deliverable
           /\ ErrorOf(last.ret.value).fmt
                = "MAIL FROM rejected: {code} {message}"
           /\ ErrorOf(last.ret.value).code = m.code
           /\ ErrorOf(last.ret.value).message = m.message.text

\* the text of the exception an error field reports, if it reports one
ErrorText(r) == IF "e" \in DOMAIN ErrorOf(r) THEN ErrorOf(r).e ELSE ""

\* the MX lookup of the last call asked the resolver, which timed out
DnsTimedOut ==
  /\ last.mx # <<>>
  /\ last.dns = 1
  /\ last.mx[1].kind = "return"
  /\ "error" \in DOMAIN last.mx[1].value
  /\ last.mx[1].value.error = "timed out"

\* C11: a timeout or connection failure during the DNS resolution or the SMTP
\* I/O of verify_email_smtp yields exists = None and deliverable = False with
\* the description of the failure in error; it is never reported as
\* exists = False.
C11_TransportFailureMeansUnknown ==
  last.op = VerifyOp =>
    /\ DnsTimedOut
       => ( /\ last.ret.kind = "return"
            /\ last.ret.value.exists = None
            /\ ~last.ret.value.deliverable
            /\ ErrorText(last.ret.value) = "timed out" )
    /\ \A i \in 1..Len(last.log) :
         last.log[i].resp.kind = "raise"
         => ( /\ last.ret.kind = "return"
              /\ last.ret.value.exists = None
              /\ ~last.ret.value.deliverable
              /\ ErrorText(last.ret.value) = last.log[i].resp.exc.msg )

\* C12: whenever the peer answers 250 to the RCPT TO of the synthetic address,
\* detect_catch_all returns is_catch_all = True with confidence = 90.
C12_AcceptedRcptMeansCatchAll ==
  ( /\ last.op = DetectOp
    /\ \E r \in RepliesTo("rcpt") : r.code = 250 )
  => ( /\ last.ret.kind = "return"
       /\ last.ret.value.is_catch_all = True
       /\ last.ret.value.confidence = 90 )

\* C14: the cache key ignores the letters' case: after a successful resolution
\* for one spelling of a domain, a call within the TTL for another spelling of
\* the same domain is a cache hit (no resolver query) that returns the stored
\* result.
C14_KeyIsCaseInsensitive ==
  [][ ( /\ last.op = CheckOp /\ last'.op = CheckOp
        /\ last'.arg # last.arg /\ Lower(last'.arg) = Lower(last.arg)
        /\ last.dns = 1 /\ last.ret.kind = "return" /\ last.ret.value.has_mx
        /\ last'.at - last.at < MX_CACHE_TTL )
      => ( /\ last'.dns = 0
           /\ last'.ret.kind = "return"
           /\ last'.ret.value = [last.ret.value EXCEPT !.cached = TRUE] ) ]_vars

\* a hit for "ex" on the entry that a call for "Ex" stored
C14_Witness ==
  /\ last.op = CheckOp
  /\ last.arg = DomLower
  /\ last.dns = 0
  /\ last.ret.kind = "return"
  /\ last.ret.value.cached
  /\ last.ret.value.domain = DomMixed

\* ascending (non-decreasing) by priority
IsSortedByPriority(recs) ==
  \A i \in 1..Len(recs), j \in 1..Len(recs) :
    i < j => recs[i].priority <= recs[j].priority

\* C15: every result of check_mx_records_cached that has at least one MX
\* record, fresh or served from the cache, lists its records in non-decreasing
\* order of priority.
C15_RecordsSortedByPriority ==
  ( /\ last.op = CheckOp
    /\ last.ret.kind = "return"
    /\ Len(last.ret.value.mx_records) >= 1 )
  => IsSortedByPriority(last.ret.value.mx_records)

\* a result of two records whose answer listed the priority 20 first
C15_Witness ==
  /\ last.op = CheckOp
  /\ last.ret.kind = "return"
  /\ Len(last.ret.value.mx_records) = 2
  /\ last.ret.value.mx_records[1].priority < last.ret.value.mx_records[2].priority

\* the MX lookup of the last call found no MX record
LookupFoundNoMx ==
  /\ last.mx # <<>>
  /\ last.mx[1].kind = "return"
  /\ ~last.mx[1].value.has_mx

\* C16: when the domain has no resolvable MX record, detect_catch_all returns
\* is_catch_all = False with confidence = 100 and never opens an SMTP
\* connection.
C16_NoMxMeansNotCatchAll ==
  ( /\ last.op = DetectOp
    /\ LookupFoundNoMx )
  => ( /\ last.ret.kind = "return"
       /\ last.ret.value.is_catch_all = False
       /\ last.ret.value.confidence = 100
       /\ last.log = <<>> )

\* a detection on a domain whose lookup failed
C16_Witness ==
  /\ last.op = DetectOp
  /\ LookupFoundNoMx
  /\ last.ret.kind = "return"
  /\ last.ret.value.confidence = 100

\* C18: after a call of check_mx_records_cached(D) that missed the cache, the
\* cache holds an entry for D with the result of that call and the current
\* time as its timestamp, whether the resolution succeeded or failed.
C18_MissStoresResult ==
  [][ ( /\ last' # last
        /\ last'.op = CheckOp
        /\ last'.dns = 1 )
      => ( /\ last'.ret.kind = "return"
           /\ get_mx_cache_key(last'.arg) \in DOMAIN mx_cache'
           /\ mx_cache'[get_mx_cache_key(last'.arg)] =
                [data |-> last'.ret.value, timestamp |-> clock'] ) ]_vars

\* C19: in detect_catch_all, when the peer answers MAIL FROM with a code
\* outside 2xx the dialogue is aborted: RCPT TO is never sent and no verdict
\* "not catch-all, confidence 85" is derived.
C19_MailFromRejectedAbortsDetection ==
  ( /\ last.op = DetectOp
    /\ \E m \in RepliesTo("mail") : m.code \notin 200..299 )
  => ( /\ ~Issued("rcpt")
       /\ ~( /\ last.ret.kind = "return"
             /\ last.ret.value.is_catch_all = False
             /\ last.ret.value.confidence = 85 ) )

\* the exceptions the smtplib calls of the last call raised
RaisedInSession ==
  { last.log[i].resp.exc : i \in { j \in 1..Len(last.log) :
       last.log[j].resp.kind = "raise" } }

\* C20: when a transport or protocol exception is raised at any step of the
\* SMTP session of detect_catch_all (connect, HELO, MAIL FROM, RCPT TO, QUIT),
\* the call returns is_catch_all = None and confidence = 0 with the text of the
\* failure in error.
C20_SessionExceptionMeansUndetermined ==
  ( /\ last.op = DetectOp
    /\ RaisedInSession # {} )
  => ( /\ last.ret.kind = "return"
       /\ last.ret.value.is_catch_all = None
       /\ last.ret.value.confidence = 0
       /\ \E e \in RaisedInSession : last.ret.value.error = e.msg )

\* every step of the session raised in some detection; here it is QUIT,
\* after an RCPT TO that was answered
C20_Witness ==
  /\ last.op = DetectOp
  /\ \E i \in 1..Len(last.log) :
       last.log[i].cmd = "quit" /\ last.log[i].resp.kind = "raise"
  /\ last.ret.kind = "return"
  /\ last.ret.value.is_catch_all = None
  /\ last.ret.value.confidence = 0

InfoOp == "get_domain_info"

\* the provider the chain of substring tests names for a lowercased host
ExpectedProvider(mx_host) ==
  IF Contains(mx_host, <<"g","o","o","g","l","e">>) \/ Contains(mx_host, <<"g","m","a","i","l">>)
  THEN "Google Workspace"
  ELSE IF \/ Contains(mx_host, <<"o","u","t","l","o","o","k">>)
          \/ Contains(mx_host, <<"m","i","c","r","o","s","o","f","t">>)
          \/ Contains(mx_host, <<"o","f","f","i","c","e","3","6","5">>)
  THEN "Microsoft 365"
  ELSE IF Contains(mx_host, <<"p","r","o","t","o","n","m","a","i","l">>)
  THEN "ProtonMail"
  ELSE IF Contains(mx_host, <<"z","o","h","o">>) THEN "Zoho Mail"
  ELSE IF Contains(mx_host, <<"m","a","i","l","g","u","n">>) THEN "Mailgun"
  ELSE IF Contains(mx_host, <<"s","e","n","d","g","r","i","d">>) THEN "SendGrid"
  ELSE "Unknown"

\* the host matches a Google substring and a Microsoft substring
MatchesGoogleAndMicrosoft(mx_host) ==
  /\ Contains(mx_host, <<"g","o","o","g","l","e">>) \/ Contains(mx_host, <<"g","m","a","i","l">>)
  /\ \/ Contains(mx_host, <<"o","u","t","l","o","o","k">>)
     \/ Contains(mx_host, <<"m","i","c","r","o","s","o","f","t">>)
     \/ Contains(mx_host, <<"o","f","f","i","c","e","3","6","5">>)

\* C17: get_domain_info names the provider by comparing the first MX host,
\* lowercased, with the ordered substring table, the first matching row
\* winning (a host matching a Google and a Microsoft substring is Google
\* Workspace); without a match or without MX records the provider is
\* "Unknown"; provider_detected is true exactly when the provider is not
\* "Unknown".
C17_FirstMatchingProviderWins ==
  ( /\ last.op = InfoOp
    /\ last.ret.kind = "return" )
  => LET v == last.ret.value
         records == v.mx_info.mx_records
         first == Lower(records[1].host)
     IN /\ v.email_provider =
             ( IF v.mx_info.has_mx /\ records # <<>>
               THEN ExpectedProvider(first) ELSE "Unknown" )
        /\ ( v.mx_info.has_mx /\ records # <<>>
             /\ MatchesGoogleAndMicrosoft(first) )
           => v.email_provider = "Google Workspace"
        /\ v.provider_detected <=> (v.email_provider # "Unknown")

\* the first MX host of the domain is "gmail.outlook"
C17_Witness ==
  /\ last.op = InfoOp
  /\ last.ret.kind = "return"
  /\ last.ret.value.mx_info.has_mx
  /\ MatchesGoogleAndMicrosoft(Lower(last.ret.value.mx_info.mx_records[1].host))
  /\ last.ret.value.email_provider = "Google Workspace"
  /\ last.ret.value.provider_detected

\* no call in progress has been left by an exception
NoCallFailed == \A t \in Threads : ~At(t, "failed")

\* every entry is the pair that one successful resolution of a domain with
\* that key stored
EntriesAreWhole ==
  \A k \in DOMAIN mx_cache :
    /\ DOMAIN mx_cache[k] = {"data", "timestamp"}
    /\ mx_cache[k].timestamp \in 0..clock
    /\ get_mx_cache_key(mx_cache[k].data.domain) = k
    /\ \E a \in RdataSeqs :
         mx_cache[k].data = MxSuccess(mx_cache[k].data.domain, a)

\* C13: under any interleaving of concurrent check_mx_records_cached calls
\* (same or different domains, including calls that find the same entry
\* expired at the same time) no call fails, and every cache entry remains a
\* (result, timestamp) pair written by one complete resolution of the domain
\* that hashes to its key.
C13_ConcurrentCallsAreSafe ==
  /\ NoCallFailed
  /\ EntriesAreWhole

\* the last call was a lookup that found its entry expired and whose
\* re-resolution failed
ExpiredThenFailed ==
  /\ last.op = CheckOp
  /\ last.found # -1
  /\ last.at - last.found >= MX_CACHE_TTL
  /\ last.dns = 1
  /\ last.ret.kind = "return"
  /\ ~last.ret.value.has_mx

\* C21: when check_mx_records_cached(D) finds the entry of D expired, the
\* entry is removed before the re-resolution; so if the re-resolution fails
\* the cache holds no entry for D afterwards, and the next lookup of D does
\* not return the stale result: it asks the resolver.
C21_ExpiredEntryIsGoneAfterFailure ==
  [][ ExpiredThenFailed
      => ( /\ get_mx_cache_key(last.arg) \notin DOMAIN mx_cache
           /\ ( /\ last'.op = CheckOp
                /\ last' # last
                /\ get_mx_cache_key(last'.arg) = get_mx_cache_key(last.arg) )
              => ( /\ last'.dns = 1
                   /\ last'.found = -1
                   /\ last'.ret.kind = "return"
                   /\ ~last'.ret.value.cached ) ) ]_vars

\* a lookup found the entry expired, the resolver failed and the entry is gone
C21_Witness ==
  /\ ExpiredThenFailed
  /\ get_mx_cache_key(last.arg) \notin DOMAIN mx_cache

\* C22: check_mx_records_cached(D) changes at most the cache entry keyed by
\* the case-folded D: the entries of all other domains stay as they are, and
\* a cache hit leaves the whole cache unchanged, the hit entry's result and
\* timestamp included.
C22_OnlyOwnEntryChanges ==
  [][ last'.op = CheckOp
      => ( /\ \A k \in (DOMAIN mx_cache \cup DOMAIN mx_cache') :
                k # get_mx_cache_key(last'.arg)
                => ( /\ k \in DOMAIN mx_cache
                     /\ k \in DOMAIN mx_cache'
                     /\ mx_cache'[k] = mx_cache[k] )
           /\ last'.dns = 0 => mx_cache' = mx_cache ) ]_vars

\* a hit on an entry stored before the call, in a cache of two entries
C22_Witness ==
  /\ last.op = CheckOp
  /\ last.dns = 0
  /\ last.ret.kind = "return"
  /\ last.ret.value.cached
  /\ DOMAIN mx_cache =
       { get_mx_cache_key(DomLower), get_mx_cache_key(DomOther) }
  /\ mx_cache[get_mx_cache_key(last.arg)].timestamp < last.at

\* the connection attempts of the last call
ConnectEvents == { i \in 1..Len(last.log) : last.log[i].cmd = "connect" }

\* the failure of the connection attempt is what the call reports
ReportsAsIs(e) ==
  /\ last.ret.kind = "return"
  /\ last.op = VerifyOp
     => ( /\ last.ret.value.exists = None
          /\ ~last.ret.value.deliverable
          /\ ErrorText(last.ret.value) = e.msg )
  /\ last.op = DetectOp
     => ( /\ last.ret.value.is_catch_all = None
          /\ last.ret.value.confidence = 0
          /\ last.ret.value.error = e.msg )

\* C23: no retries and no fallback: one call of verify_email_smtp or
\* detect_catch_all makes at most one DNS MX query and at most one SMTP
\* connection attempt, to the host of the first MX record (the lowest priority
\* number); when the attempt fails the failure is reported as it is and no
\* other host is tried.
C23_OneQueryOneConnection ==
  last.op \in {VerifyOp, DetectOp} =>
    /\ last.dns <= 1
    /\ Cardinality(ConnectEvents) <= 1
    /\ \A i \in ConnectEvents :
         /\ i = 1
         /\ last.mx # <<>>
         /\ last.mx[1].kind = "return"
         /\ LET recs == last.mx[1].value.mx_records IN
            /\ recs # <<>>
            /\ last.log[i].host = recs[1].host
            /\ \A j \in 1..Len(recs) : recs[1].priority <= recs[j].priority
         /\ last.log[i].resp.kind = "raise"
            => ( /\ Len(last.log) = 1
                 /\ ReportsAsIs(last.log[i].resp.exc) )

\* the domain has two MX records and the connection to the first is refused
C23_Witness ==
  /\ last.op = DetectOp
  /\ last.mx # <<>>
  /\ last.mx[1].kind = "return"
  /\ Len(last.mx[1].value.mx_records) = 2
  /\ last.log = <<EvConnect(last.mx[1].value.mx_records[1].host,
                            Raise(ConnectionRefused))>>
  /\ last.ret.kind = "return"

\* the commands of a session, in the order of the protocol
SessionOrder == <<"connect", "helo", "mail", "rcpt", "quit">>

\* the place of a command in the protocol; 0: not a command of the protocol
Rank(cmd) ==
  IF \E n \in 1..Len(SessionOrder) : SessionOrder[n] = cmd
  THEN CHOOSE n \in 1..Len(SessionOrder) : SessionOrder[n] = cmd
  ELSE 0

\* C24: within a session opened by verify_email_smtp or detect_catch_all the
\* commands are issued in the order connect, HELO, MAIL FROM, RCPT TO, QUIT,
\* each at most once: RCPT TO is never sent before MAIL FROM was answered,
\* nothing is sent after QUIT, and no DATA command is sent.
C24_CommandsInProtocolOrder ==
  last.op \in {VerifyOp, DetectOp} =>
    /\ \A i \in 1..Len(last.log) : Rank(last.log[i].cmd) # 0
    /\ last.log # <<>> => last.log[1].cmd = "connect"
    /\ \A i \in 1..Len(last.log), j \in 1..Len(last.log) :
         i < j => Rank(last.log[i].cmd) < Rank(last.log[j].cmd)
    /\ \A i \in 1..Len(last.log) :
         last.log[i].cmd = "rcpt"
         => ( /\ i > 1
              /\ last.log[i - 1].cmd = "mail"
              /\ last.log[i - 1].resp.kind = "reply" )
    /\ \A i \in 1..Len(last.log) :
         last.log[i].cmd = "quit" => i = Len(last.log)

\* a verification whose session ran through all five commands
C24_Witness ==
  /\ last.op = VerifyOp
  /\ Len(last.log) = Len(SessionOrder)
  /\ \A i \in 1..Len(last.log) :
       /\ last.log[i].cmd = SessionOrder[i]
       /\ last.log[i].resp.kind = "reply"

\* the ways the resolver can fail
DnsFailures == { o \in DnsOutcomes : o.kind = "raise" }

\* the four failure outcomes: no MX answer, domain does not exist, no
\* nameservers, and any other resolution error
FailureOutcome(e) ==
  IF e.type \in DnsNamedErrors THEN e.type ELSE "resolution error"

\* the last call asked the resolver, which did not answer with MX records
ResolverFailed ==
  /\ last.op = CheckOp
  /\ last.dns = 1
  /\ \A a \in RdataSeqs : last.ret # Return(MxSuccess(last.arg, a))

\* C25: each of the four DNS failure outcomes yields a result with
\* has_mx = False, accepts_email = False, no records and a populated error
\* field, and the error field tells the four outcomes apart: no two failures
\* of different outcomes give the same result.
C25_DnsFailuresAreDistinguishable ==
  ResolverFailed =>
    /\ last.ret.kind = "return"
    /\ ~last.ret.value.has_mx
    /\ ~last.ret.value.accepts_email
    /\ last.ret.value.mx_records = <<>>
    /\ "error" \in DOMAIN last.ret.value
    /\ last.ret.value.error # ""
    /\ \A a \in DnsFailures, b \in DnsFailures :
         ( /\ MxExcept(last.arg, a.exc) = last.ret
           /\ MxExcept(last.arg, b.exc).kind = "return"
           /\ MxExcept(last.arg, b.exc).value.error = last.ret.value.error )
         => FailureOutcome(a.exc) = FailureOutcome(b.exc)

\* a resolution that timed out: the generic outcome
C25_Witness ==
  /\ ResolverFailed
  /\ last.ret.kind = "return"
  /\ last.ret.value.error = "timed out"
  /\ \E a \in DnsFailures :
       /\ FailureOutcome(a.exc) = "resolution error"
       /\ MxExcept(last.arg, a.exc) = last.ret

\* C26: in every result of check_mx_records_cached (fresh or cached, success
\* or failure) accepts_email is true exactly when has_mx is true and the
\* record list holds at least one record.
C26_AcceptsEmailIffHasRecords ==
  ( /\ last.op = CheckOp
    /\ last.ret.kind = "return" )
  => ( last.ret.value.accepts_email
       <=> ( /\ last.ret.value.has_mx
             /\ Len(last.ret.value.mx_records) >= 1 ) )

\* a failure result served fresh, after a success for the other domain was
\* cached
C26_Witness ==
  /\ last.op = CheckOp
  /\ last.ret.kind = "return"
  /\ ~last.ret.value.accepts_email
  /\ ~last.ret.value.has_mx
  /\ \E k \in DOMAIN mx_cache : mx_cache[k].data.accepts_email

====
